---- MODULE Spec2Model ----
(***************************************************************************)
(* State-machine model of the two FastAPI services of the repository:      *)
(*   user-service/main.py     (users table, registration, login, tokens)   *)
(*   workout-service/main.py  (workouts table, bearer-token verification)  *)
(* Every handler is one action, except create_user, whose SELECT (line 73) *)
(* and INSERT/COMMIT (lines 80-81) are two database round trips of a       *)
(* request served on a thread pool: Spec splits it into two steps, SeqSpec *)
(* runs the same code as one step for a client that calls in sequence.     *)
(***************************************************************************)
EXTENDS Integers, Sequences, FiniteSets, TLC

VARIABLES
    userEnv,      \* SECRET_KEY in the environment of user-service (None = unset)
    workoutEnv,   \* SECRET_KEY in the environment of workout-service (None = unset)
    users,        \* table "user" of users.db, rows in insertion order
    workouts,     \* table "workout" of workouts.db, rows in insertion order
    now,          \* wall clock (datetime.utcnow), in minutes
    issued,       \* per username, the token its client holds: the last one /token gave it
    pending,      \* create_user requests between their SELECT and their INSERT
    calls,        \* outcomes of the create_user calls of the sequential client
    lastResp      \* the last HTTP exchange: request, response, database access

vars == <<userEnv, workoutEnv, users, workouts, now, issued, pending, calls, lastResp>>

----------------------------------------------------------------------------
(* Bounds of the model *)

MaxUsers == 2
MaxWorkouts == 2
MaxCalls == 3

None == "None"
Usernames == {"alice", "bob"}
Passwords == {"pw1", "pw2"}
EnvValues == {None, "k1"}
RequestSlots == {1, 2}
\* the instants at which requests arrive, in minutes: a token issued at 0
\* is presented at its exp (30) and one minute later
Times == {0, 30, 31}
AttackerKey == "attacker_key"

----------------------------------------------------------------------------
(* user-service: configuration *)

DefaultSecret == "a_default_but_still_secret_key"

\* os.getenv("SECRET_KEY", "a_default_but_still_secret_key")
User_SECRET_KEY == IF userEnv = None THEN DefaultSecret ELSE userEnv

ACCESS_TOKEN_EXPIRE_MINUTES == 30

DefaultExpireMinutes == 15

\* workout-service: os.getenv("SECRET_KEY"), no default
Workout_SECRET_KEY == workoutEnv

----------------------------------------------------------------------------
(* Library functions, by what they compute *)

\* passlib bcrypt: the digest depends on the salt and the password
pwd_hash(password) ==
    [scheme |-> "bcrypt", salt |-> "s1", digest |-> <<"s1", password>>]

verify_password(plain_password, hashed_password) ==
    hashed_password.digest = <<hashed_password.salt, plain_password>>

\* HS256: the signature is a function of the key and of the signed claims
HMAC(key, claims) == [key |-> key, msg |-> claims]

jwt_encode(claims, key) == [claims |-> claims, signature |-> HMAC(key, claims)]

\* faulty variant: the exp claim is not looked at
jwt_decode_no_exp(token, key, t) ==
    IF key = None
        THEN [error |-> "JWKError", payload |-> None]
    ELSE IF token.signature # HMAC(key, token.claims)
        THEN [error |-> "JWTError", payload |-> None]
    ELSE [error |-> None, payload |-> token.claims]

\* jose.jwt.decode(token, key, algorithms=["HS256"]) at time t.
\* A key that is no string is refused by the key constructor with a JWKError,
\* which is not a JWTError; a bad signature and an elapsed exp are JWTErrors.
jwt_decode(token, key, t) ==
    IF key = None
        THEN [error |-> "JWKError", payload |-> None]
    ELSE IF token.signature # HMAC(key, token.claims)
        THEN [error |-> "JWTError", payload |-> None]
    ELSE IF "exp" \in DOMAIN token.claims /\ token.claims.exp < t
        THEN [error |-> "JWTError", payload |-> None]
    ELSE [error |-> None, payload |-> token.claims]

\* FastAPI response_model: only the fields of the model are serialised
response_model(fields, obj) == [f \in fields \cap DOMAIN obj |-> obj[f]]

\* pydantic request model: fields that the model does not declare are dropped
request_model(fields, body) == [f \in fields \cap DOMAIN body |-> body[f]]

UserBase == {"username"}
WorkoutBase == {"name", "sets", "reps", "weight"}
Workout == WorkoutBase \cup {"id", "owner_username"}
Token == {"access_token", "token_type"}

Min(S) == CHOOSE x \in S : \A y \in S : x <= y

\* Optional[T]: <<>> is Python's None, <<x>> is the value x
Nothing == <<>>
Some(x) == <<x>>

----------------------------------------------------------------------------
(* user-service: helpers and handlers *)

\* create_access_token(data, expires_delta) called at time t
create_access_token(data, expires_delta, t) ==
    LET expire == IF expires_delta # Nothing
                     THEN t + expires_delta[1]
                     ELSE t + DefaultExpireMinutes
        to_encode == [k \in DOMAIN data \cup {"exp"} |->
                         IF k = "exp" THEN expire ELSE data[k]]
    IN jwt_encode(to_encode, User_SECRET_KEY)

\* faulty variant: the lookup finds nobody
select_user_never_found(username) == Nothing

\* session.exec(select(User).where(User.username == username)).first()
select_user_by_username(username) ==
    LET idx == {i \in 1..Len(users) : users[i].username = username}
    IN IF idx = {} THEN Nothing ELSE Some(users[Min(idx)])

\* session.get(User, user_id)
session_get_user(user_id) ==
    LET idx == {i \in 1..Len(users) : users[i].id = user_id}
    IN IF idx = {} THEN Nothing ELSE Some(users[Min(idx)])

\* User(username=..., hashed_password=...): the id is generated at the insert
new_db_user(user) ==
    [id |-> Len(users) + 1,
     username |-> user.username,
     hashed_password |-> pwd_hash(user.password)]

\* faulty variant: a unique index on username rejects the insert of a stored username
insert_user_unique(db_user) ==
    IF \E i \in 1..Len(users) : users[i].username = db_user.username
        THEN users
        ELSE Append(users, db_user)

\* session.add(db_user); session.commit(): the table declares no constraint
\* on username, the row is appended
insert_user(db_user) == Append(users, db_user)

Idle == [username |-> None, password |-> None]

NoToken == [claims |-> [sub |-> None], signature |-> None]

Response(op, request, token, status, body, db) ==
    [op |-> op, request |-> request, token |-> token, at |-> now,
     status |-> status, body |-> body, db |-> db]

InFlight == Cardinality({r \in RequestSlots : pending[r] # Idle})

\* create_user, lines 73-75: the existence check
create_user_check(r, user) ==
    /\ pending[r] = Idle
    /\ LET existing_user == select_user_by_username(user.username)
       IN IF existing_user # Nothing
             THEN /\ lastResp' = Response("create_user", user, NoToken, 400, <<>>, "select")
                  /\ UNCHANGED pending
             ELSE /\ Len(users) + InFlight < MaxUsers
                  /\ pending' = [pending EXCEPT ![r] = user]
                  /\ UNCHANGED lastResp
    /\ UNCHANGED <<userEnv, workoutEnv, users, workouts, now, issued, calls>>

\* create_user, lines 77-84: hash, insert, commit, refresh, respond
create_user_commit(r) ==
    /\ pending[r] # Idle
    /\ LET db_user == new_db_user(pending[r])
       IN /\ users' = insert_user(db_user)
          /\ lastResp' = Response("create_user", pending[r], NoToken, 200,
                                  <<response_model(UserBase, users'[Len(users')])>>,
                                  "insert")
    /\ pending' = [pending EXCEPT ![r] = Idle]
    /\ UNCHANGED <<userEnv, workoutEnv, workouts, now, issued, calls>>

\* create_user as one step: the whole handler, for a client that waits for
\* each response before it sends the next request
create_user(user) ==
    /\ \A r \in RequestSlots : pending[r] = Idle
    /\ Len(calls) < MaxCalls
    /\ LET existing_user == select_user_by_username(user.username)
       IN IF existing_user # Nothing
             THEN /\ lastResp' = Response("create_user", user, NoToken, 400, <<>>, "select")
                  /\ UNCHANGED users
             ELSE /\ Len(users) < MaxUsers
                  /\ users' = insert_user(new_db_user(user))
                  /\ lastResp' = Response("create_user", user, NoToken, 200,
                                          <<response_model(UserBase, users'[Len(users')])>>,
                                          "insert")
    /\ calls' = Append(calls, [username |-> user.username,
                               status |-> lastResp'.status,
                               before |-> users,
                               after |-> users'])
    /\ UNCHANGED <<userEnv, workoutEnv, workouts, now, issued, pending>>

\* get_user, lines 86-92
get_user_response(user_id) ==
    LET user == session_get_user(user_id)
    IN IF user = Nothing
          THEN Response("get_user", [user_id |-> user_id], NoToken, 404, <<>>, "select")
          ELSE Response("get_user", [user_id |-> user_id], NoToken, 200,
                        <<response_model(UserBase, user[1])>>, "select")

get_user(user_id) ==
    /\ lastResp' = get_user_response(user_id)
    /\ UNCHANGED <<userEnv, workoutEnv, users, workouts, now, issued, pending, calls>>

\* faulty variant: a token is issued without looking the user up
login_token_unchecked(form_data) ==
    Some(create_access_token([sub |-> form_data.username],
                             Some(ACCESS_TOKEN_EXPIRE_MINUTES), now))

\* login_for_access_token, lines 99-109: the credential check and the token
login_token(form_data) ==
    LET user == select_user_by_username(form_data.username)
    IN IF user = Nothing \/ ~verify_password(form_data.password, user[1].hashed_password)
          THEN Nothing
          ELSE Some(create_access_token([sub |-> user[1].username],
                                        Some(ACCESS_TOKEN_EXPIRE_MINUTES), now))

login_for_access_token(form_data) ==
    /\ LET access_token == login_token(form_data)
       IN IF access_token = Nothing
             THEN /\ lastResp' = Response("login", form_data, NoToken, 401, <<>>, "select")
                  /\ UNCHANGED issued
             ELSE /\ issued' = [issued EXCEPT ![access_token[1].claims.sub] = access_token]
                  /\ lastResp' = Response("login", form_data, NoToken, 200,
                                          <<response_model(Token,
                                              [access_token |-> access_token[1],
                                               token_type |-> "bearer"])>>, "select")
    /\ UNCHANGED <<userEnv, workoutEnv, users, workouts, now, pending, calls>>

----------------------------------------------------------------------------
(* workout-service: helpers and handlers *)

\* faulty variant: an unreachable directory counts as "the user exists"
user_exists_fail_open(user_id, link) ==
    IF link = "ConnectionError"
        THEN TRUE
        ELSE get_user_response(user_id).status = 200

\* user_exists, lines 45-53. requests.get either raises ConnectionError or
\* returns the answer of the user-service's get_user. No handler calls it.
user_exists(user_id, link) ==
    IF link = "ConnectionError"
        THEN FALSE
        ELSE get_user_response(user_id).status = 200

\* get_current_user, lines 55-72: the username, or the HTTP error raised.
\* A JWTError is turned into 401; any other exception leaves the dependency
\* unhandled and the server answers 500.
get_current_user(token) ==
    LET decoded == jwt_decode(token, Workout_SECRET_KEY, now)
    IN IF decoded.error = "JWTError"
          THEN [status |-> 401, username |-> None]
       ELSE IF decoded.error # None
          THEN [status |-> 500, username |-> None]
       ELSE IF "sub" \notin DOMAIN decoded.payload
          THEN [status |-> 401, username |-> None]
       ELSE [status |-> 200, username |-> decoded.payload.sub]

\* Workout(name=..., sets=..., reps=..., weight=..., owner_username=current_user)
new_db_workout(workout, current_user) ==
    [id |-> Len(workouts) + 1,
     name |-> workout.name,
     sets |-> workout.sets,
     reps |-> workout.reps,
     weight |-> workout.weight,
     owner_username |-> current_user]

\* faulty variant: an owner named in the request body is believed
create_workout_row_trusting(body, current_user) ==
    new_db_workout(request_model(WorkoutBase, body),
                   IF "owner_username" \in DOMAIN body
                       THEN body.owner_username
                       ELSE current_user)

\* the handler's db_workout from the raw request body: FastAPI parses the body
\* into WorkoutCreate, the handler copies its four fields and stamps the owner
create_workout_row(body, current_user) ==
    new_db_workout(request_model(WorkoutBase, body), current_user)

\* faulty variant: every owner's rows are returned
select_workouts_unfiltered(current_user) == workouts

\* select(Workout).where(Workout.owner_username == current_user), .all()
select_workouts(current_user) ==
    SelectSeq(workouts, LAMBDA w : w.owner_username = current_user)

\* create_workout, lines 82-102
create_workout(token, body) ==
    LET auth == get_current_user(token)
    IN /\ IF auth.status # 200
             THEN /\ lastResp' = Response("create_workout", body, token,
                                          auth.status, <<>>, "none")
                  /\ UNCHANGED workouts
             ELSE /\ Len(workouts) < MaxWorkouts
                  /\ workouts' = Append(workouts, create_workout_row(body, auth.username))
                  /\ lastResp' = Response("create_workout", body, token, 200,
                         <<response_model(Workout, workouts'[Len(workouts')])>>, "insert")
       /\ UNCHANGED <<userEnv, workoutEnv, users, now, issued, pending, calls>>

\* get_workouts, lines 104-115
get_workouts(token) ==
    LET auth == get_current_user(token)
    IN /\ IF auth.status # 200
             THEN lastResp' = Response("get_workouts", [none |-> None], token,
                                       auth.status, <<>>, "none")
             ELSE lastResp' = Response("get_workouts", [none |-> None], token, 200,
                                       [i \in 1..Len(select_workouts(auth.username)) |->
                                          response_model(Workout,
                                              select_workouts(auth.username)[i])],
                                       "select")
       /\ UNCHANGED <<userEnv, workoutEnv, users, workouts, now, issued, pending, calls>>

----------------------------------------------------------------------------
(* Environment: clients, the clock, the deployment *)

\* time passes
Tick ==
    /\ \E t \in Times : t > now /\ now' = t
    /\ UNCHANGED <<userEnv, workoutEnv, users, workouts, issued, pending, calls, lastResp>>

UserRequests == [username : Usernames, password : Passwords]

\* the registrations of the concurrent clients
Registrations == [username : Usernames, password : {"pw1"}]

UserIds == 1..(MaxUsers + 1)

\* request bodies of POST /workouts/, some with fields WorkoutCreate does not declare
WorkoutBodies ==
    { [name |-> "Squat", sets |-> 5, reps |-> 5, weight |-> 100],
      [name |-> "Bench", sets |-> 3, reps |-> 8, weight |-> 60,
       owner_username |-> "bob", user_id |-> 99] }

\* tokens made without the services' key
Forged ==
    { jwt_encode([sub |-> u, exp |-> 1000], AttackerKey) : u \in {"alice"} }

Held == {issued[u][1] : u \in {v \in Usernames : issued[v] # Nothing}}

Presentable == Held \cup Forged

Init ==
    /\ userEnv \in EnvValues
    /\ workoutEnv \in EnvValues
    /\ users = <<>>
    /\ workouts = <<>>
    /\ now = 0
    /\ issued = [u \in Usernames |-> Nothing]
    /\ pending = [r \in RequestSlots |-> Idle]
    /\ calls = <<>>
    /\ lastResp = [op |-> "none", request |-> [none |-> None], token |-> NoToken,
                   at |-> 0, status |-> 0, body |-> <<>>, db |-> "none"]

Next ==
    \/ \E r \in RequestSlots, user \in Registrations : create_user_check(r, user)
    \/ \E r \in RequestSlots : create_user_commit(r)
    \/ \E user_id \in UserIds : get_user(user_id)
    \/ \E form_data \in UserRequests : login_for_access_token(form_data)
    \/ \E token \in Presentable, body \in WorkoutBodies : create_workout(token, body)
    \/ \E token \in Presentable : get_workouts(token)
    \/ Tick

Spec == Init /\ [][Next]_vars

SeqNext ==
    \/ \E user \in UserRequests : create_user(user)
    \/ \E user_id \in UserIds : get_user(user_id)
    \/ \E form_data \in UserRequests : login_for_access_token(form_data)

SeqSpec == Init /\ [][SeqNext]_vars

----------------------------------------------------------------------------
(* Properties *)

WorkoutOps == {"create_workout", "get_workouts"}

SignedBy(token, key) == key # None /\ token.signature = HMAC(key, token.claims)

\* C1: every record that get_workouts returns to a caller is owned by the
\* subject of the caller's bearer token, and that token carries a signature
\* made with the workout service's key.
C1_ListOnlyOwn ==
    (lastResp.op = "get_workouts" /\ lastResp.status = 200) =>
        /\ SignedBy(lastResp.token, Workout_SECRET_KEY)
        /\ \A i \in 1..Len(lastResp.body) :
              lastResp.body[i].owner_username = lastResp.token.claims.sub

\* C1 witness: a caller receives a record of its own while the table holds
\* another owner's record too.
C1_Witness ==
    /\ lastResp.op = "get_workouts"
    /\ lastResp.status = 200
    /\ Len(lastResp.body) > 0
    /\ \E i \in 1..Len(workouts) :
          workouts[i].owner_username # lastResp.token.claims.sub

\* C2: a client that registers the same username twice in sequence gets
\* success for the first call, which stores the user, and 400 for the second,
\* which leaves the table as it was.
C2_TwiceThenConflict ==
    \A i, j \in 1..Len(calls) :
        ( /\ i < j
          /\ calls[i].username = calls[j].username
          /\ \A k \in 1..(i - 1) : calls[k].username # calls[i].username )
        => /\ calls[i].status = 200
           /\ Len(calls[i].after) = Len(calls[i].before) + 1
           /\ calls[i].after[Len(calls[i].after)].username = calls[i].username
           /\ calls[j].status = 400
           /\ calls[j].after = calls[j].before

\* C2 witness: a username was registered twice.
C2_Witness ==
    \E i, j \in 1..Len(calls) :
        /\ i < j
        /\ calls[i].username = calls[j].username
        /\ calls[j].status = 400

\* C3: no two stored users have the same username.
C3_UniqueUsernames ==
    \A i, j \in 1..Len(users) :
        users[i].username = users[j].username => i = j

\* C4: a create_user request that has passed the existence check always
\* completes its insert: the step that finishes it adds a row with its
\* username and answers 200, whatever the table holds by then.
C4_InsertNotStopped ==
    [][\A r \in RequestSlots :
          (pending[r] # Idle /\ pending'[r] = Idle) =>
              /\ Len(users') = Len(users) + 1
              /\ users'[Len(users')].username = pending[r].username
              /\ lastResp'.status = 200]_vars

\* C4 witness: two requests with the same username are both past the
\* existence check and neither has inserted.
C4_Witness ==
    \E r1, r2 \in RequestSlots :
        /\ r1 # r2
        /\ pending[r1] # Idle
        /\ pending[r2] # Idle
        /\ pending[r1].username = pending[r2].username
        /\ \A i \in 1..Len(users) : users[i].username # pending[r1].username

\* C5: when both services start from the same SECRET_KEY setting, every
\* token issued by login is accepted by get_current_user until it expires,
\* and yields the username that logged in.
C5_RoundTrip ==
    userEnv = workoutEnv =>
        /\ \A token \in Held :
              token.claims.exp >= now =>
                  get_current_user(token) =
                      [status |-> 200, username |-> token.claims.sub]
        /\ (lastResp.op = "login" /\ lastResp.status = 200) =>
              lastResp.body[1].access_token.claims.sub = lastResp.request.username

OwnerIds == UserIds \cup {99}

Verified(resp) == resp.status \notin {401, 500}

\* C7: a create_workout request that names an owner id which the directory
\* does not hold is answered 404 and stores no workout (requests refused for
\* their token are left aside).
C7_PolicyA ==
    ( /\ lastResp.op = "create_workout"
      /\ Verified(lastResp)
      /\ "user_id" \in DOMAIN lastResp.request
      /\ ~user_exists(lastResp.request.user_id, "response") )
    => /\ lastResp.status = 404
       /\ lastResp.db = "none"

\* C7 as amended: user_exists is false on a connection error and on a
\* non-200 answer, true when the directory holds the id; create_workout does
\* not consult it: it never answers 404, and it stores the workout exactly
\* when the token is verified.
C7_UserExistsUnused ==
    /\ \A user_id \in OwnerIds :
          /\ ~user_exists(user_id, "ConnectionError")
          /\ user_exists(user_id, "response") <=>
                \E i \in 1..Len(users) : users[i].id = user_id
    /\ lastResp.op = "create_workout" =>
          /\ lastResp.status \in {200, 401, 500}
          /\ lastResp.status = 200 <=> lastResp.db = "insert"
          /\ lastResp.status = 200 <=> SignedBy(lastResp.token, Workout_SECRET_KEY)
                                         /\ lastResp.token.claims.exp >= lastResp.at

\* C7 witness: a workout was stored for a request naming an owner id that
\* user_exists finds absent, while the directory holds some user.
C7_Witness ==
    /\ lastResp.op = "create_workout"
    /\ lastResp.status = 200
    /\ "user_id" \in DOMAIN lastResp.request
    /\ ~user_exists(lastResp.request.user_id, "response")
    /\ user_exists(1, "response")
    /\ workouts[Len(workouts)].name = lastResp.request.name

\* C8: a successful create_user or get_user answers with exactly the id and
\* the username of the user.
C8_PublicView ==
    (lastResp.op \in {"create_user", "get_user"} /\ lastResp.status = 200) =>
        /\ Len(lastResp.body) = 1
        /\ DOMAIN lastResp.body[1] = {"id", "username"}

\* C9: the workout stored by a successful create_workout is owned by the
\* subject of the request's token, which is validly signed, and its name,
\* sets, reps and weight are those of the request body.
C9_OwnerFromToken ==
    (lastResp.op = "create_workout" /\ lastResp.status = 200) =>
        LET w == workouts[lastResp.body[1].id]
        IN /\ SignedBy(lastResp.token, Workout_SECRET_KEY)
           /\ w.owner_username = lastResp.token.claims.sub
           /\ w.name = lastResp.request.name
           /\ w.sets = lastResp.request.sets
           /\ w.reps = lastResp.request.reps
           /\ w.weight = lastResp.request.weight
           /\ lastResp.body[1] = w

\* C9 witness: the request body names an owner other than the token's subject.
C9_Witness ==
    /\ lastResp.op = "create_workout"
    /\ lastResp.status = 200
    /\ "owner_username" \in DOMAIN lastResp.request
    /\ lastResp.request.owner_username # lastResp.token.claims.sub

\* C10: every stored workout's owner_username is the username of a stored user.
C10_OwnerIsUser ==
    \A i \in 1..Len(workouts) :
        \E j \in 1..Len(users) : users[j].username = workouts[i].owner_username

\* C10 witness: workouts of two owners are stored, and a forged token was refused.
C10_Witness ==
    /\ \E i, j \in 1..Len(workouts) :
          workouts[i].owner_username # workouts[j].owner_username
    /\ lastResp.op \in WorkoutOps
    /\ lastResp.token \in Forged
    /\ lastResp.status = 401

====
